---- MODULE Spec2Model ----
(***************************************************************************)
(* compare_guess_random/src/main.rs: one round of the guessing game.       *)
(* main prints a greeting, draws secret_number from gen_range(1, 101),     *)
(* prints it, prompts, reads one line of standard input, trims and parses  *)
(* it as u32, echoes the guess and prints the result of guess.cmp(secret). *)
(* Both .expect() calls panic (exit status 101) with a fixed message.      *)
(*                                                                         *)
(* Text is a sequence of one-character strings.  A u32 is kept as two      *)
(* 16-bit limbs [hi, lo] (value hi * 65536 + lo) so that the checked       *)
(* arithmetic of the parser is exact at the u32 boundary.  println! is     *)
(* taken to succeed (standard output stays open).                          *)
(***************************************************************************)
EXTENDS Integers, Sequences, FiniteSets, TLC

VARIABLES pc, secret_number, stdin, guessStr, readResult, guess, stdout, stderr, exitCode, reads

vars == <<pc, secret_number, stdin, guessStr, readResult, guess, stdout, stderr, exitCode, reads>>

\* ---------------------------------------------------------------- bounds
\* longest standard-input content enumerated over Alphabet
MaxLen == 3
\* the count of read_line calls saturates here ("more than once")
MaxReads == 2

\* ------------------------------------------------------- program constants
\* gen_range(1, 101): inclusive lower bound
Low == 1
\* gen_range(1, 101): exclusive upper bound
High == 101
\* radix of str::parse::<u32>
Radix == 10
\* one u32 is two limbs of 16 bits
LimbBase == 65536
\* exit status of a Rust process whose main thread panicked
PanicExit == 101

\* ------------------------------------------------------------------ text
Digits == <<"0", "1", "2", "3", "4", "5", "6", "7", "8", "9">>

\* the White_Space characters that occur in the inputs
WhiteSpace == {" ", "\n", "\t", "\r"}

Alphabet == {"0", "7", " ", "\n", "-"}

\* char::to_digit(10): 0..9 for an ASCII digit, -1 for None
ToDigit(c) ==
  IF \E i \in 1..Len(Digits) : Digits[i] = c
  THEN (CHOOSE i \in 1..Len(Digits) : Digits[i] = c) - 1
  ELSE -1

\* index of the first character at or after i that is not whitespace
RECURSIVE TrimStart(_, _)
TrimStart(s, i) ==
  IF i <= Len(s) /\ s[i] \in WhiteSpace THEN TrimStart(s, i + 1) ELSE i

\* index of the last character at or before j that is not whitespace
RECURSIVE TrimEnd(_, _)
TrimEnd(s, j) ==
  IF j >= 1 /\ s[j] \in WhiteSpace THEN TrimEnd(s, j - 1) ELSE j

\* str::trim_start in place of str::trim
Trim_StartOnly(s) == SubSeq(s, TrimStart(s, 1), Len(s))

\* str::trim: the slice between the first and the last character that is
\* not whitespace (empty when there is none)
Trim(s) == SubSeq(s, TrimStart(s, 1), TrimEnd(s, Len(s)))

\* ------------------------------------------------------------------- u32
U32 == [hi : 0..(LimbBase - 1), lo : 0..(LimbBase - 1)]

Zero == [hi |-> 0, lo |-> 0]

\* a value that is not a u32: the binding does not exist yet
Undef == [hi |-> -1, lo |-> -1]

NoSecret == -1

\* a small number as u32
ToU32(n) == [hi |-> n \div LimbBase, lo |-> n % LimbBase]

\* u32::wrapping_mul in place of checked_mul
CheckedMul_Wrapping(r, m) ==
  LET lo1 == r.lo * m
      hi1 == r.hi * m + (lo1 \div LimbBase)
  IN  [ok |-> TRUE, val |-> [hi |-> hi1 % LimbBase, lo |-> lo1 % LimbBase]]

\* u32::checked_mul by a small factor: [ok, val]
CheckedMul(r, m) ==
  LET lo1 == r.lo * m
      hi1 == r.hi * m + (lo1 \div LimbBase)
  IN  IF hi1 >= LimbBase
      THEN [ok |-> FALSE, val |-> Zero]
      ELSE [ok |-> TRUE, val |-> [hi |-> hi1, lo |-> lo1 % LimbBase]]

\* u32::checked_add of a small addend: [ok, val]
CheckedAdd(r, x) ==
  LET lo1 == r.lo + x
      hi1 == r.hi + (lo1 \div LimbBase)
  IN  IF hi1 >= LimbBase
      THEN [ok |-> FALSE, val |-> Zero]
      ELSE [ok |-> TRUE, val |-> [hi |-> hi1, lo |-> lo1 % LimbBase]]

Err(k) == [ok |-> FALSE, kind |-> k, val |-> Zero]

Ok(v) == [ok |-> TRUE, kind |-> "none", val |-> v]

\* one turn of the digit loop of from_str_radix: result * radix + digit
PushDigit(result, c) ==
  LET x == ToDigit(c)
  IN  IF x < 0 THEN Err("InvalidDigit")
      ELSE LET m == CheckedMul(result, Radix)
           IN  IF ~m.ok THEN Err("Overflow")
               ELSE LET a == CheckedAdd(m.val, x)
                    IN  IF ~a.ok THEN Err("Overflow") ELSE Ok(a.val)

\* the digit loop of from_str_radix for an unsigned type; s is the value of
\* one turn, bound once so that no turn is evaluated again by the next
RECURSIVE Accumulate(_, _)
Accumulate(digits, result) ==
  IF digits = <<>> THEN Ok(result)
  ELSE CHOOSE out \in { IF s.ok THEN Accumulate(Tail(digits), s.val) ELSE s :
                          s \in {PushDigit(result, Head(digits))} } : TRUE

\* a parser that takes the empty text for 0
ParseU32_EmptyIsZero(src) ==
  IF src = <<>> THEN Ok(Zero)
  ELSE LET digits == IF Head(src) = "+" THEN Tail(src) ELSE src
       IN  IF digits = <<>> THEN Err("Empty")
           ELSE Accumulate(digits, Zero)

\* <u32 as FromStr>::from_str: a leading "+" is accepted, "-" is not a sign
ParseU32(src) ==
  IF src = <<>> THEN Err("Empty")
  ELSE LET digits == IF Head(src) = "+" THEN Tail(src) ELSE src
       IN  IF digits = <<>> THEN Err("Empty")
           ELSE Accumulate(digits, Zero)

\* u32::cmp
Cmp(a, b) ==
  IF a.hi < b.hi \/ (a.hi = b.hi /\ a.lo < b.lo) THEN "Less"
  ELSE IF a.hi > b.hi \/ (a.hi = b.hi /\ a.lo > b.lo) THEN "Greater"
  ELSE "Equal"

\* the arms for Less and Greater exchanged
Outcome_Swapped(ord) ==
  IF ord = "Less" THEN "Too big!"
  ELSE IF ord = "Greater" THEN "Too small!"
  ELSE "You win!"

\* the arm of the match that runs
Outcome(ord) ==
  IF ord = "Less" THEN "Too small!"
  ELSE IF ord = "Greater" THEN "Too big!"
  ELSE "You win!"

\* u32 divided by ten: quotient and remainder
DivTen(v) ==
  LET r1  == v.hi % Radix
      mid == r1 * LimbBase + v.lo
  IN  [q |-> [hi |-> v.hi \div Radix, lo |-> mid \div Radix], r |-> mid % Radix]

\* Display for u32 ("{}"): decimal, no sign, no leading zeros
RECURSIVE Display(_)
Display(v) ==
  CHOOSE out \in { IF d.q = Zero THEN <<Digits[d.r + 1]>>
                   ELSE Append(Display(d.q), Digits[d.r + 1]) :
                     d \in {DivTen(v)} } : TRUE

\* ----------------------------------------------------------- environment
\* contents of standard input that exercise the boundaries of the parser
BoundaryInputs ==
  { <<"4", "2", "\n">>,
    <<" ", " ", "4", "2", "\n">>,
    <<"4", "2">>,
    <<"\t", "4", "2", "\r", "\n">>,
    <<"a", "b", "c", "\n">>,
    <<"4", " ", "2", "\n">>,
    <<"-", "5", "\n">>,
    <<"+", "5", "0", "\n">>,
    <<"+">>,
    <<"+", "\n">>,
    <<" ", "+", "7", " ", "\n">>,
    <<"+", "-", "7", "\n">>,
    <<"+", "+", "7", "\n">>,
    <<"7", "+", "\n">>,
    <<"+", "0", "\n">>,
    <<"1", "\n">>,
    <<"1", "0", "0", "\n">>,
    <<"1", "0", "1", "\n">>,
    <<"5", "0", "\n", "9", "0", "\n">>,
    <<"a", "\n", "5", "0", "\n">>,
    <<"4", "2", "9", "4", "9", "6", "7", "2", "9", "5", "\n">>,
    <<"4", "2", "9", "4", "9", "6", "7", "2", "9", "6", "\n">>,
    <<"0", "4", "2", "9", "4", "9", "6", "7", "2", "9", "5", "\n">>,
    <<"4", "2", "9", "4", "9", "6", "7", "3", "0", "0", "\n">>,
    <<"9", "9", "9", "9", "9", "9", "9", "9", "9", "9", "9", "\n">>,
    <<"-", "4", "2", "9", "4", "9", "6", "7", "2", "9", "6", "\n">>,
    <<"6", "5", "5", "3", "6", "\n">> }

Inputs ==
  (UNION { [1..n -> Alphabet] : n \in 0..MaxLen }) \cup BoundaryInputs

\* index of the first line terminator, 0 if there is none
FirstNewline(s) ==
  IF \E i \in 1..Len(s) : s[i] = "\n"
  THEN CHOOSE i \in 1..Len(s) : s[i] = "\n" /\ \A j \in 1..(i - 1) : s[j] # "\n"
  ELSE 0

\* what read_line appends: up to and including the first "\n", or all that
\* is left at end of input (nothing at all when the input is exhausted)
LineOf(s) == IF FirstNewline(s) = 0 THEN s ELSE SubSeq(s, 1, FirstNewline(s))

RestOf(s) == IF FirstNewline(s) = 0 THEN <<>> ELSE SubSeq(s, FirstNewline(s) + 1, Len(s))

\* ---------------------------------------------------------------- state
Init ==
  /\ pc = "greet"
  /\ secret_number = NoSecret
  /\ stdin \in Inputs
  /\ guessStr = <<>>
  /\ readResult = "none"
  /\ guess = Undef
  /\ stdout = <<>>
  /\ stderr = <<>>
  /\ exitCode = -1
  /\ reads = 0

\* the message is printed but the process exits with status 0
Panic_ExitZero(msg) ==
  /\ stderr' = Append(stderr, msg)
  /\ exitCode' = 0
  /\ pc' = "panicked"

\* .expect(msg) on an Err: the thread panics and the process exits
Panic(msg) ==
  /\ stderr' = Append(stderr, msg)
  /\ exitCode' = PanicExit
  /\ pc' = "panicked"

\* println!("Guess the number!")
Greet ==
  /\ pc = "greet"
  /\ stdout' = Append(stdout, <<"Guess the number!">>)
  /\ pc' = "gen"
  /\ UNCHANGED <<secret_number, stdin, guessStr, readResult, guess, stderr, exitCode, reads>>

\* a range that includes its upper bound
GenSecret_Inclusive ==
  /\ pc = "gen"
  /\ \E s \in Low..High : secret_number' = s
  /\ pc' = "printSecret"
  /\ UNCHANGED <<stdin, guessStr, readResult, guess, stdout, stderr, exitCode, reads>>

\* let secret_number = rand::thread_rng().gen_range(1, 101)
GenSecret ==
  /\ pc = "gen"
  /\ \E s \in Low..(High - 1) : secret_number' = s
  /\ pc' = "printSecret"
  /\ UNCHANGED <<stdin, guessStr, readResult, guess, stdout, stderr, exitCode, reads>>

\* the secret is not printed
PrintSecret_Omitted ==
  /\ pc = "printSecret"
  /\ pc' = "prompt"
  /\ UNCHANGED <<secret_number, stdin, guessStr, readResult, guess, stdout, stderr, exitCode, reads>>

\* println!("The secret number is: {}", secret_number)
PrintSecret ==
  /\ pc = "printSecret"
  /\ stdout' = Append(stdout, <<"The secret number is: ", Display(ToU32(secret_number))>>)
  /\ pc' = "prompt"
  /\ UNCHANGED <<secret_number, stdin, guessStr, readResult, guess, stderr, exitCode, reads>>

\* println!("Please input your guess.")
Prompt ==
  /\ pc = "prompt"
  /\ stdout' = Append(stdout, <<"Please input your guess.">>)
  /\ pc' = "read"
  /\ UNCHANGED <<secret_number, stdin, guessStr, readResult, guess, stderr, exitCode, reads>>

\* the io::Result is dropped instead of unwrapped with expect
ReadLine_ErrIgnored ==
  /\ pc = "read"
  /\ reads' = IF reads < MaxReads THEN reads + 1 ELSE reads
  /\ \E ioError \in BOOLEAN :
       IF ioError
       THEN /\ readResult' = "Err"
            /\ guessStr' = <<>>
            /\ UNCHANGED stdin
       ELSE /\ readResult' = "Ok"
            /\ guessStr' = <<>> \o LineOf(stdin)
            /\ stdin' = RestOf(stdin)
  /\ pc' = "parse"
  /\ UNCHANGED <<secret_number, guess, stdout, stderr, exitCode>>

\* let mut guess = String::new(); io::stdin().read_line(&mut guess).expect(..)
\* The read returns Err on a stream error (or bytes that are not UTF-8);
\* at end of input it returns Ok(0) and leaves the string empty.
ReadLine ==
  /\ pc = "read"
  /\ reads' = IF reads < MaxReads THEN reads + 1 ELSE reads
  /\ \E ioError \in BOOLEAN :
       IF ioError
       THEN /\ readResult' = "Err"
            /\ Panic("Failed to read line")
            /\ UNCHANGED <<stdin, guessStr>>
       ELSE /\ readResult' = "Ok"
            /\ guessStr' = <<>> \o LineOf(stdin)
            /\ stdin' = RestOf(stdin)
            /\ pc' = "parse"
            /\ UNCHANGED <<stderr, exitCode>>
  /\ UNCHANGED <<secret_number, guess, stdout>>

\* a parse failure goes back to the read instead of panicking
Parse_Retry ==
  /\ pc = "parse"
  /\ LET r == ParseU32(Trim(guessStr))
     IN  IF r.ok
         THEN /\ guess' = r.val
              /\ pc' = "echo"
         ELSE /\ pc' = "read"
              /\ UNCHANGED guess
  /\ UNCHANGED <<secret_number, stdin, guessStr, readResult, stdout, stderr, exitCode, reads>>

\* let guess: u32 = guess.trim().parse().expect("Please type a number!")
Parse ==
  /\ pc = "parse"
  /\ LET r == ParseU32(Trim(guessStr))
     IN  IF r.ok
         THEN /\ guess' = r.val
              /\ pc' = "echo"
              /\ UNCHANGED <<stderr, exitCode>>
         ELSE /\ Panic("Please type a number!")
              /\ UNCHANGED guess
  /\ UNCHANGED <<secret_number, stdin, guessStr, readResult, stdout, reads>>

\* println!("You guessed: {}", guess)
Echo ==
  /\ pc = "echo"
  /\ stdout' = Append(stdout, <<"You guessed: ", Display(guess)>>)
  /\ pc' = "compare"
  /\ UNCHANGED <<secret_number, stdin, guessStr, readResult, guess, stderr, exitCode, reads>>

\* a wrong guess goes back to the prompt
Compare_Loop ==
  /\ pc = "compare"
  /\ stdout' = Append(stdout, <<Outcome(Cmp(guess, ToU32(secret_number)))>>)
  /\ pc' = IF Cmp(guess, ToU32(secret_number)) = "Equal" THEN "return" ELSE "prompt"
  /\ UNCHANGED <<secret_number, stdin, guessStr, readResult, guess, stderr, exitCode, reads>>

\* match guess.cmp(&secret_number) { .. }
Compare ==
  /\ pc = "compare"
  /\ stdout' = Append(stdout, <<Outcome(Cmp(guess, ToU32(secret_number)))>>)
  /\ pc' = "return"
  /\ UNCHANGED <<secret_number, stdin, guessStr, readResult, guess, stderr, exitCode, reads>>

\* the closing brace of main: the process exits with status 0
Return ==
  /\ pc = "return"
  /\ exitCode' = 0
  /\ pc' = "done"
  /\ UNCHANGED <<secret_number, stdin, guessStr, readResult, guess, stdout, stderr, reads>>

Next ==
  \/ Greet
  \/ GenSecret
  \/ PrintSecret
  \/ Prompt
  \/ ReadLine
  \/ Parse
  \/ Echo
  \/ Compare
  \/ Return

Spec == Init /\ [][Next]_vars

\* the single thread always takes its next step; the blocking read returns
FairSpec == Spec /\ WF_vars(Next)

TypeOK ==
  /\ pc \in {"greet", "gen", "printSecret", "prompt", "read", "parse", "echo",
             "compare", "return", "done", "panicked"}
  /\ secret_number \in (Low..(High - 1)) \cup {NoSecret}
  /\ guess \in U32 \cup {Undef}
  /\ exitCode \in {-1, 0, PanicExit}
  /\ readResult \in {"none", "Ok", "Err"}
  /\ reads \in 0..MaxReads

\* ------------------------------------------------- vocabulary of the claims
Terminal == {"done", "panicked"}

OutcomeMsgs == {"Too small!", "Too big!", "You win!"}

\* how many times the one-word line m is on standard output
Count(m) == Cardinality({i \in DOMAIN stdout : stdout[i] = <<m>>})

OutcomeCount == Cardinality({i \in DOMAIN stdout : \E m \in OutcomeMsgs : stdout[i] = <<m>>})

EchoCount == Cardinality({i \in DOMAIN stdout : stdout[i][1] = "You guessed: "})

\* the run read a line and is over
LineRun == pc \in Terminal /\ readResult = "Ok"

AllDigits(t) == t # <<>> /\ \A i \in 1..Len(t) : ToDigit(t[i]) >= 0

\* a base-10 integer as it is written: an optional sign, then digits
IsInteger(t) ==
  /\ t # <<>>
  /\ IF t[1] \in {"+", "-"} THEN AllDigits(Tail(t)) ELSE AllDigits(t)

Magnitude(t) == IF t[1] \in {"+", "-"} THEN Tail(t) ELSE t

RECURSIVE StripZeros(_)
StripZeros(d) == IF Len(d) > 1 /\ Head(d) = "0" THEN StripZeros(Tail(d)) ELSE d

U32MaxDigits == <<"4", "2", "9", "4", "9", "6", "7", "2", "9", "5">>

\* a <= b for digit strings of one length
RECURSIVE LexLeq(_, _)
LexLeq(a, b) ==
  IF a = <<>> THEN TRUE
  ELSE IF ToDigit(Head(a)) < ToDigit(Head(b)) THEN TRUE
  ELSE IF ToDigit(Head(a)) > ToDigit(Head(b)) THEN FALSE
  ELSE LexLeq(Tail(a), Tail(b))

\* the digits denote a number of at most 4294967295
FitsU32(d) ==
  LET z == StripZeros(d)
  IN  Len(z) < Len(U32MaxDigits) \/ (Len(z) = Len(U32MaxDigits) /\ LexLeq(z, U32MaxDigits))

\* the number the digits denote, saturated at High (above every secret)
RECURSIVE SatValue(_, _)
SatValue(d, acc) ==
  IF d = <<>> THEN acc
  ELSE LET v == acc * Radix + ToDigit(Head(d))
       IN  SatValue(Tail(d), IF v > High THEN High ELSE v)

\* the integer the text denotes, saturated at -High and High
MathValue(t) ==
  IF t[1] = "-" THEN 0 - SatValue(Magnitude(t), 0) ELSE SatValue(Magnitude(t), 0)

\* the one outcome message is the one for ordering g against the secret
OutcomeIs(g) ==
  /\ pc = "done"
  /\ OutcomeCount = 1
  /\ (Count("Too small!") = 1) <=> (g < secret_number)
  /\ (Count("Too big!") = 1) <=> (g > secret_number)
  /\ (Count("You win!") = 1) <=> (g = secret_number)

\* the text is an integer of 0..4294967295 written without a minus sign
IsU32Text(t) == IsInteger(t) /\ t[1] # "-" /\ FitsU32(Magnitude(t))

\* C1 as stated: every line whose trimmed text is a base-10 integer g ends
\* the run with exactly one outcome message, the one for g against the secret.
C1_AsStated == (LineRun /\ IsInteger(Trim(guessStr))) => OutcomeIs(MathValue(Trim(guessStr)))

\* C1 amended: every line whose trimmed text is a base-10 integer g of
\* 0..4294967295 written without a minus sign ends the run with exactly one
\* outcome message: "Too small!" iff g < secret, "Too big!" iff g > secret,
\* "You win!" iff g = secret.
C1_OutcomeMatchesOrder == (LineRun /\ IsU32Text(Trim(guessStr))) => OutcomeIs(MathValue(Trim(guessStr)))

C1_Witness ==
  /\ pc = "done"
  /\ guessStr = <<"7", "\n">>
  /\ secret_number = 7
  /\ Count("You win!") = 1

\* C2: a line whose trimmed text is not a base-10 integer ends the run with
\* "Please type a number!", with no "You guessed" line, no outcome message and
\* no second read.
C2_NonIntegerIsParseFailure ==
  (readResult = "Ok" /\ pc # "parse" /\ ~IsInteger(Trim(guessStr))) =>
    /\ pc = "panicked"
    /\ stderr = <<"Please type a number!">>
    /\ EchoCount = 0
    /\ OutcomeCount = 0
    /\ reads = 1

C2_Witness ==
  /\ pc = "panicked"
  /\ guessStr \in {<<"a", "b", "c", "\n">>, <<"\n">>}
  /\ stderr = <<"Please type a number!">>

\* end of input with no data: the read succeeded and appended nothing
AtEof == readResult = "Ok" /\ guessStr = <<>>

\* C3 as stated: a failed read, and also end of input with no data, ends the
\* run with "Failed to read line".
C3_AsStated ==
  (pc \in Terminal /\ (readResult = "Err" \/ AtEof)) =>
    /\ stderr = <<"Failed to read line">>
    /\ EchoCount = 0
    /\ OutcomeCount = 0

\* C3 amended: a read that returns an error ends the run with "Failed to read
\* line" and no "You guessed" line or outcome message; at end of input with
\* no data the read succeeds with an empty line and the run ends with
\* "Please type a number!" instead, again with no such output.
C3_ReadFailureDiagnostic ==
  /\ readResult = "Err" =>
       /\ pc = "panicked"
       /\ stderr = <<"Failed to read line">>
       /\ EchoCount = 0
       /\ OutcomeCount = 0
  /\ (AtEof /\ pc # "parse") =>
       /\ pc = "panicked"
       /\ stderr = <<"Please type a number!">>
       /\ EchoCount = 0
       /\ OutcomeCount = 0

C3_Witness ==
  /\ readResult = "Err"
  /\ pc = "panicked"
  /\ stderr = <<"Failed to read line">>

\* the lines a successful run writes, in order
ExpectedOutput ==
  << <<"Guess the number!">>,
     <<"The secret number is: ", Display(ToU32(secret_number))>>,
     <<"Please input your guess.">>,
     <<"You guessed: ", Display(guess)>>,
     <<Outcome(Cmp(guess, ToU32(secret_number)))>> >>

\* the fixed text that starts each of the first four lines
ExpectedHeads ==
  <<"Guess the number!", "The secret number is: ", "Please input your guess.", "You guessed: ">>

\* what the digits denote when they fit a TLC integer (short texts)
RECURSIVE Value(_, _)
Value(d, acc) == IF d = <<>> THEN acc ELSE Value(Tail(d), acc * Radix + ToDigit(Head(d)))

\* C4: a successful run writes exactly the five lines, in order and once each;
\* the secret is generated and printed before the line is read, and the guess
\* is echoed only after the line is read and parsed and before the outcome.
C4_OutputOrder ==
  /\ pc = "done" =>
       /\ stdout = ExpectedOutput
       /\ stdout[2][2] = Display(ToU32(secret_number))
       /\ ParseU32(stdout[4][2]) = ParseU32(Trim(guessStr))
       /\ stdout[5][1] \in OutcomeMsgs
  /\ reads > 0 =>
       /\ Len(stdout) >= 3
       /\ secret_number \in Low..(High - 1)
       /\ stdout[2] = <<"The secret number is: ", Display(ToU32(secret_number))>>
  /\ EchoCount > 0 =>
       /\ readResult = "Ok"
       /\ guess \in U32
       /\ Len(stdout) >= 4
       /\ stdout[4][1] = "You guessed: "
  /\ OutcomeCount > 0 => (Len(stdout) = 5 /\ EchoCount = 1)
  /\ Len(stdout) <= 5
  /\ \A i \in DOMAIN stdout : i < 5 => stdout[i][1] = ExpectedHeads[i]
  /\ Len(stdout) = 5 => stdout[5][1] \in OutcomeMsgs

C4_Witness ==
  /\ pc = "done"
  /\ Len(stdout) = 5
  /\ stdout[4] = <<"You guessed: ", <<"4", "2">>>>
  /\ stdout[5] = <<"Too big!">>

\* the secret as it was printed, read back as a number
PrintedSecret == Value(stdout[2][2], 0)

SecretKept == secret_number # NoSecret => secret_number' = secret_number

\* C5: once generated the secret is in 1..100 and never changes, and the
\* value printed is the value the guess is compared against.
C5_SecretRangeAndStable ==
  /\ [](pc \notin {"greet", "gen"} => secret_number \in 1..100)
  /\ [][SecretKept]_vars
  /\ [](Len(stdout) >= 2 => PrintedSecret = secret_number)
  /\ [](pc = "done" => stdout[5] = <<Outcome(Cmp(guess, ToU32(PrintedSecret)))>>)

C5_Witness ==
  /\ pc = "done"
  /\ secret_number = 100
  /\ stdout[2] = <<"The secret number is: ", <<"1", "0", "0">>>>
  /\ stdout[5] = <<"Too small!">>

\* C6: a run ends in exactly one of three ways: exit status 0 with an outcome
\* message and no diagnostic; a panic with "Please type a number!"; a panic
\* with "Failed to read line".  A panic has a non-zero status, exactly one
\* diagnostic and no outcome message.
C6_TerminalOutcomes ==
  /\ pc \notin Terminal => (exitCode = -1 /\ stderr = <<>>)
  /\ pc = "done" => (exitCode = 0 /\ stderr = <<>> /\ OutcomeCount = 1)
  /\ pc = "panicked" =>
       /\ exitCode # 0
       /\ exitCode # -1
       /\ stderr \in {<<"Please type a number!">>, <<"Failed to read line">>}
       /\ OutcomeCount = 0
  /\ pc \in Terminal => ((exitCode = 0) <=> (OutcomeCount = 1))
  /\ ~(stderr # <<>> /\ OutcomeCount > 0)

C6_Witness ==
  /\ pc = "panicked"
  /\ exitCode = PanicExit
  /\ stderr = <<"Please type a number!">>
  /\ OutcomeCount = 0

\* the text between the first and the last character that is not whitespace
Stripped(s) ==
  LET solid == {i \in 1..Len(s) : s[i] \notin WhiteSpace}
  IN  IF solid = {} THEN <<>>
      ELSE SubSeq(s, CHOOSE i \in solid : \A j \in solid : i <= j,
                     CHOOSE i \in solid : \A j \in solid : i >= j)

\* C7: the parse step gives a line the result it gives the same line with its
\* surrounding whitespace removed: the same guess, or failure in both cases.
C7_WhitespaceIgnored ==
  (readResult = "Ok" /\ pc # "parse") =>
    LET bare == ParseU32(Trim(Stripped(guessStr)))
    IN  /\ bare.ok <=> (pc # "panicked")
        /\ bare.ok => guess = bare.val
        /\ ~bare.ok => stderr = <<"Please type a number!">>

C7_Witness ==
  /\ guessStr = <<" ", " ", "4", "2", "\n">>
  /\ pc = "echo"
  /\ guess = ParseU32(<<"4", "2">>).val
  /\ guess = ToU32(42)

AfterRead == {"parse", "echo", "compare", "return", "done", "panicked"}

\* a line: no terminator except as its last character
OneLine(t) == \A i \in 1..Len(t) : t[i] = "\n" => i = Len(t)

StaysAfterRead ==
  pc \in AfterRead =>
    /\ pc' \in AfterRead
    /\ reads' = reads
    /\ stdin' = stdin
    /\ guessStr' = guessStr

ReadsOneLine ==
  (pc = "read" /\ readResult' = "Ok") =>
    /\ guessStr' \o stdin' = stdin
    /\ OneLine(guessStr')
    /\ stdin' # <<>> => guessStr'[Len(guessStr')] = "\n"

\* C8: standard input is read at most once, exactly one line of it; after the
\* read control never returns to the prompt or the read, and the prompt is
\* written at most once.
C8_SingleRead ==
  /\ [](reads <= 1 /\ Count("Please input your guess.") <= 1)
  /\ [](pc \in AfterRead <=> reads = 1)
  /\ [][StaysAfterRead]_vars
  /\ [][ReadsOneLine]_vars

C8_Witness ==
  /\ pc = "done"
  /\ reads = 1
  /\ guessStr = <<"5", "0", "\n">>
  /\ stdin = <<"9", "0", "\n">>
  /\ Count("Please input your guess.") = 1

ReturnsAfterOutcome ==
  /\ OutcomeCount' > OutcomeCount => pc' = "return"
  /\ pc = "return" => (pc' = "done" /\ exitCode' = 0 /\ stdout' = stdout)

\* C9: given that the read returns, every run terminates, and a run whose
\* guess parsed terminates normally, directly after its outcome message.
C9_Terminates ==
  /\ <>(pc \in Terminal)
  /\ (pc = "echo") ~> (pc = "done" /\ exitCode = 0 /\ OutcomeCount = 1)
  /\ [][ReturnsAfterOutcome]_vars

C9_Witness ==
  /\ pc = "done"
  /\ exitCode = 0
  /\ OutcomeCount = 1
  /\ stdin = <<>>

\* the text denotes a negative integer
IsNegative(t) ==
  /\ IsInteger(t)
  /\ t[1] = "-"
  /\ \E i \in 2..Len(t) : t[i] # "0"

\* the text denotes an integer above 4294967295
IsAboveU32(t) == IsInteger(t) /\ t[1] # "-" /\ ~FitsU32(Magnitude(t))

\* C10: the guess is a u32: at the comparison it is in 0..4294967295; a text
\* denoting a negative integer or one above 4294967295 takes the parse-failure
\* path; a guess of 0 gives "Too small!" and a guess above 100 "Too big!".
C10_GuessIsU32 ==
  /\ pc \in {"echo", "compare", "return", "done"} => guess \in U32
  /\ (readResult = "Ok" /\ pc # "parse" /\ (IsNegative(Trim(guessStr)) \/ IsAboveU32(Trim(guessStr)))) =>
       /\ pc = "panicked"
       /\ stderr = <<"Please type a number!">>
       /\ OutcomeCount = 0
  /\ (pc = "done" /\ IsU32Text(Trim(guessStr)) /\ MathValue(Trim(guessStr)) = 0) =>
       stdout[5] = <<"Too small!">>
  /\ (pc = "done" /\ IsU32Text(Trim(guessStr)) /\ MathValue(Trim(guessStr)) > 100) =>
       stdout[5] = <<"Too big!">>

C10_Witness ==
  /\ pc = "done"
  /\ guessStr = <<"4", "2", "9", "4", "9", "6", "7", "2", "9", "5", "\n">>
  /\ guess = [hi |-> LimbBase - 1, lo |-> LimbBase - 1]
  /\ stdout[5] = <<"Too big!">>
====
